---- MODULE Spec2Model ----
(***************************************************************************)
(* The order-and-inventory ledger of the POS system (src/app.py).          *)
(*                                                                         *)
(* The shared state is the SQLite database: the tables menu_items,         *)
(* orders, order_items and stock_history.  Every request handler opens its *)
(* own connection (get_db_connection).  With the sqlite3 module's default  *)
(* isolation level a SELECT runs outside any transaction and sees the      *)
(* committed database; the first INSERT/UPDATE/DELETE of a connection      *)
(* opens a transaction and takes the database's single write lock, which   *)
(* is held until commit() or until the connection is dropped (rollback).   *)
(* Requests are served by concurrent threads.                              *)
(***************************************************************************)
EXTENDS Integers, Sequences, FiniteSets, TLC

(* ------------------------------ bounds -------------------------------- *)
MaxHist == 2         \* stock_history rows at any time

\* request threads serving concurrently
Threads == {1, 2}

\* orders ever created: one for each thread
MaxOrders == Cardinality(Threads)

\* users seeded by init_db: cashier 1, kitchen 2, admin 3, puncher 4
PuncherId == 4

\* default_menu of init_db, cut to its first row and scaled down (the seed has
\* 15 rows with stock 30..120): the ids, names and stock of the seeded rows
SeedIds      == {1}
SeedName(i)  == "Wors"
SeedStock(i) == i

\* the other columns of the seeded rows: price, category, requires_side
SeedPrice(i)    == 80
SeedCategory(i) == "Meat"
SeedSide(i)     == 1

\* largest stock a restock may reach or a new item may start with
MaxStock == SeedStock(1) + 1

\* menu_items ids ever assigned: the seed and one added item
MaxItems == Cardinality(SeedIds) + 1
ItemIds  == 1..MaxItems
Names    == {SeedName(i) : i \in SeedIds}
NULL     == "NULL"

VARIABLES
    db,       \* the committed database
    lock,     \* the thread holding the write lock, 0 when free
    tx,       \* the lock holder's uncommitted view of the database
    pc,       \* where each thread is in its handler
    loc       \* each thread's local variables

vars == <<db, lock, tx, pc, loc>>

(* ----------------------------- the tables ----------------------------- *)
\* SQL NULL in an integer column (puncher_id of a sale row)
NullId == 0

\* SQL NULL in orders.completed_at; the times of datetime.now() are 1, 2, ...
NoTime == 0

\* the database init_db leaves behind: the seeded catalog, no orders, and no
\* stock_history row (init_db inserts none for the seeded items)
InitDb ==
    [ menu_items    |-> [i \in SeedIds |->
                             [ name          |-> SeedName(i),
                               price         |-> SeedPrice(i),
                               category      |-> SeedCategory(i),
                               requires_side |-> SeedSide(i),
                               stock         |-> SeedStock(i) ]],
      menu_seq      |-> Cardinality(SeedIds),
      orders        |-> <<>>,
      order_items   |-> <<>>,
      stock_history |-> <<>> ]

\* the view of a connection that has no open transaction
NoTx ==
    [ menu_items    |-> <<>>,
      menu_seq      |-> 0,
      orders        |-> <<>>,
      order_items   |-> <<>>,
      stock_history |-> <<>> ]

\* a handler's local variables, before it has assigned any
NoLoc ==
    [ items |-> <<>>, i |-> 0, order_id |-> 0, item_id |-> 0,
      quantity_change |-> 0, stock_before |-> 0, stock_after |-> 0,
      name |-> NULL, rowcount |-> 0, customer_name |-> NULL, total |-> 0,
      limit |-> 0, result |-> <<>> ]

\* INSERT INTO menu_items ... : AUTOINCREMENT never reuses an id
InsertMenuItem(m, id, row) ==
    [k \in (DOMAIN m) \cup {id} |-> IF k = id THEN row ELSE m[k]]

\* DELETE FROM menu_items WHERE id = ?
DeleteMenuItem(m, id) == [k \in (DOMAIN m) \ {id} |-> m[k]]

\* UPDATE menu_items SET stock = ? WHERE id = ?  (no row: nothing happens)
SetStock(m, id, s) ==
    IF id \in DOMAIN m THEN [m EXCEPT ![id].stock = s] ELSE m

\* SELECT COUNT(*) FROM order_items WHERE menu_item_id = ?
OrdersCount(d, item_id) ==
    Cardinality({k \in 1..Len(d.order_items) : d.order_items[k].menu_item_id = item_id})

HistoryRow(item_id, name, change, before, after, type, notes, puncher) ==
    [ menu_item_id    |-> item_id,
      menu_item_name  |-> name,
      quantity_change |-> change,
      stock_before    |-> before,
      stock_after     |-> after,
      change_type     |-> type,
      notes           |-> notes,
      puncher_id      |-> puncher ]

(* ------------------------------ inputs -------------------------------- *)
\* quantity of a cart line; quantityChange of a stock adjustment; initial
\* stock of a new item (the handlers check none of them)
Quantities == {1, 2}
Deltas     == {0 - 1, 0, 1}
Stocks     == {0 - 1, 1}
Customers  == {"", "Thabo"}

\* what a cart line says of its item besides id and quantity: the name, the
\* price the frontend computed (the side included) and the side.  The plain
\* offer, and the one with a side of Uphuthu (+20)
PlainOffer == [name |-> SeedName(1), price |-> SeedPrice(1), side_option |-> NULL]
SideOffer  == [name |-> SeedName(1), price |-> SeedPrice(1) + 20, side_option |-> "Uphuthu"]

\* the cart lines over a set of offers and a set of quantities
CartLinesOf(offers, quantities) ==
    { [ id          |-> i,
        name        |-> o.name,
        quantity    |-> q,
        price       |-> o.price,
        side_option |-> o.side_option ] : i \in ItemIds, o \in offers, q \in quantities }

CartLines  == CartLinesOf({PlainOffer}, Quantities)
Carts      == UNION {[1..n -> CartLines] : n \in {0, 1, 2}}

\* the details of a menu item in the body of an add or an edit: those of the
\* seeded row, and another
SeedDetails ==
    [ name          |-> SeedName(1),
      price         |-> SeedPrice(1),
      category      |-> SeedCategory(1),
      requires_side |-> SeedSide(1) ]
OtherDetails ==
    [ name |-> "Pap", price |-> 20, category |-> "Sides", requires_side |-> 0 ]

\* a body without a name
NoName == [SeedDetails EXCEPT !.name = ""]

RECURSIVE SumOver(_, _)
SumOver(f, S) ==
    IF S = {} THEN 0
    ELSE LET x == CHOOSE y \in S : TRUE IN f[x] + SumOver(f, S \ {x})

\* rows the handlers now running may still add to stock_history: what keeps
\* the table within MaxHist
PendingHist ==
    SumOver([t \in Threads |->
                IF pc[t] \in {"order_item", "order_raise", "order_commit"}
                THEN Len(loc[t].items)
                ELSE IF pc[t] = "stock_write" THEN 1 ELSE 0], Threads)
RoomForOrder     == Len(db.orders) < MaxOrders
RoomForHist(n)   == Len(db.stock_history) + PendingHist + n <= MaxHist

(* --------------------------- Order Engine ----------------------------- *)
\* the row of INSERT INTO orders: the name and the total of the request,
\* status 'pending', completed_at not among the columns
OrderRow(customer_name, total) ==
    [ customer_name |-> customer_name,
      total         |-> total,
      status        |-> "pending",
      completed_at  |-> NoTime ]

\* an order_items row with the seeded price of the item in place of the cart's
OrderItemRowSeedPrice(order_id, item) ==
    [ order_id       |-> order_id,
      menu_item_id   |-> item.id,
      menu_item_name |-> item.name,
      quantity       |-> item.quantity,
      price          |-> SeedPrice(item.id),
      side_option    |-> item.side_option ]

\* the row of INSERT INTO order_items for one cart line
OrderItemRow(order_id, item) ==
    [ order_id       |-> order_id,
      menu_item_id   |-> item.id,
      menu_item_name |-> item.name,
      quantity       |-> item.quantity,
      price          |-> item.price,
      side_option    |-> item.side_option ]

\* stock_after = stock_before - item['quantity']
SaleStockAfter(stock_before, quantity) == stock_before - quantity

\* the stock_history row of one cart line: change_type 'sale', no puncher_id
SaleRow(order_id, item, stock_before) ==
    HistoryRow(item.id, item.name, 0 - item.quantity, stock_before,
               SaleStockAfter(stock_before, item.quantity), "sale",
               <<"Order #", order_id>>, NullId)

\* a decrement of one unit whatever the line's quantity
SaleUpdateOne(m, id, quantity) == SetStock(m, id, m[id].stock - 1)

\* UPDATE menu_items SET stock = stock - ? WHERE id = ?
SaleUpdate(m, id, quantity) == SetStock(m, id, m[id].stock - quantity)

\* one pass of the loop `for item in items` on the transaction's view d,
\* for a cart line whose item exists
OrderLine(d, order_id, item) ==
    LET stock_before == d.menu_items[item.id].stock IN
    [d EXCEPT !.order_items   = Append(@, OrderItemRow(order_id, item)),
              !.menu_items    = SaleUpdate(@, item.id, item.quantity),
              !.stock_history = Append(@, SaleRow(order_id, item, stock_before))]

\* a validation that asks only for the name
MissingName(customer_name, items) == customer_name = ""

\* if not customer_name or not items
MissingFields(customer_name, items) == customer_name = "" \/ items = <<>>

\* POST /api/orders: the route's validation, then create_order_db up to its
\* first statement, INSERT INTO orders, which opens the transaction and takes
\* the write lock.  Nothing is read before that statement.  A cart without
\* lines would pass `for item in items` no time and go on to the commit.
create_order(t, customer_name, items, total) ==
    /\ pc[t] = "idle"
    /\ IF MissingFields(customer_name, items)
       THEN /\ pc' = [pc EXCEPT ![t] = "order_reject"]
            /\ loc' = [loc EXCEPT ![t] =
                         [NoLoc EXCEPT !.items = items, !.customer_name = customer_name]]
            /\ UNCHANGED <<lock, tx>>
       ELSE /\ lock = 0
            /\ RoomForOrder
            /\ RoomForHist(Len(items))
            /\ lock' = t
            /\ tx' = [db EXCEPT !.orders = Append(@, OrderRow(customer_name, total))]
            /\ pc' = [pc EXCEPT ![t] = IF items = <<>> THEN "order_commit" ELSE "order_item"]
            /\ loc' = [loc EXCEPT ![t] =
                         [NoLoc EXCEPT !.items = items, !.i = 1,
                                       !.order_id = Len(db.orders) + 1,
                                       !.customer_name = customer_name,
                                       !.total = total]]
    /\ UNCHANGED db

\* create_order: return jsonify({'error': 'Missing required fields'}), 400
create_order_reject(t) ==
    /\ pc[t] = "order_reject"
    /\ pc' = [pc EXCEPT ![t] = "idle"]
    /\ loc' = [loc EXCEPT ![t] = NoLoc]
    /\ UNCHANGED <<db, lock, tx>>

\* create_order_db: one pass of `for item in items` (loc.i is the place of
\* the line in the cart).  The INSERT INTO order_items comes first; then a
\* line whose id matches no menu_items row makes current None and
\* current['stock'] raise, and the handler ends with its transaction open.
create_order_db_item(t) ==
    /\ pc[t] = "order_item"
    /\ lock = t
    /\ LET item == loc[t].items[loc[t].i] IN
       IF item.id \notin DOMAIN tx.menu_items
       THEN /\ tx' = [tx EXCEPT !.order_items = Append(@, OrderItemRow(loc[t].order_id, item))]
            /\ pc' = [pc EXCEPT ![t] = "order_raise"]
            /\ UNCHANGED loc
       ELSE /\ tx' = OrderLine(tx, loc[t].order_id, item)
            /\ loc' = [loc EXCEPT ![t].i = @ + 1]
            /\ pc' = [pc EXCEPT ![t] =
                        IF loc[t].i = Len(loc[t].items) THEN "order_commit" ELSE "order_item"]
    /\ UNCHANGED <<db, lock>>

\* a dropped connection whose statements stay
RollbackKeeps(committed, uncommitted) == uncommitted

\* what is committed when a handler raised with its transaction open: the
\* connection is dropped without commit() and SQLite rolls the transaction
\* back
Rollback(committed, uncommitted) == committed

\* the exception leaves create_order_db: the connection is dropped, the write
\* lock released (500)
create_order_db_raise(t) ==
    /\ pc[t] = "order_raise"
    /\ lock = t
    /\ db' = Rollback(db, tx)
    /\ tx' = NoTx
    /\ lock' = 0
    /\ pc' = [pc EXCEPT ![t] = "idle"]
    /\ loc' = [loc EXCEPT ![t] = NoLoc]

\* conn.commit(): the transaction's view becomes the database
Commit(committed, uncommitted) == uncommitted

\* create_order_db: conn.commit()
create_order_db_commit(t) ==
    /\ pc[t] = "order_commit"
    /\ lock = t
    /\ db' = Commit(db, tx)
    /\ tx' = NoTx
    /\ lock' = 0
    /\ pc' = [pc EXCEPT ![t] = "order_done"]
    /\ UNCHANGED loc

\* create_order_db after the commit: the SELECT of the created order,
\* conn.close(), return dict(order), and the route's 200
create_order_db_return(t) ==
    /\ pc[t] = "order_done"
    /\ pc' = [pc EXCEPT ![t] = "idle"]
    /\ loc' = [loc EXCEPT ![t] = NoLoc]
    /\ UNCHANGED <<db, lock, tx>>

\* the latest time stored in the orders table
RECURSIVE Clock(_, _)
Clock(orders, n) ==
    IF n = 0 THEN NoTime
    ELSE LET c == Clock(orders, n - 1) IN
         IF orders[n].completed_at > c THEN orders[n].completed_at ELSE c

\* an UPDATE that passes over an order already ready
CompleteOnceDb(d, order_id, now) ==
    IF order_id \in 1..Len(d.orders) /\ d.orders[order_id].status = "pending"
    THEN [d EXCEPT !.orders[order_id].status = "ready",
                   !.orders[order_id].completed_at = now]
    ELSE d

\* an UPDATE that flips the status of the order
ToggleOrderDb(d, order_id, now) ==
    IF order_id \in 1..Len(d.orders)
    THEN [d EXCEPT !.orders[order_id].status = IF @ = "ready" THEN "pending" ELSE "ready",
                   !.orders[order_id].completed_at = now]
    ELSE d

\* an UPDATE without its WHERE
CompleteAllDb(d, order_id, now) ==
    [d EXCEPT !.orders = [k \in 1..Len(d.orders) |->
                             [d.orders[k] EXCEPT !.status = "ready", !.completed_at = now]]]

\* an UPDATE that sets the status and leaves completed_at as it is
CompleteUnstampedDb(d, order_id, now) ==
    IF order_id \in 1..Len(d.orders)
    THEN [d EXCEPT !.orders[order_id].status = "ready"]
    ELSE d

\* complete_order_db: UPDATE orders SET status = 'ready', completed_at = <now>
\* WHERE id = ?
complete_order_db(d, order_id, now) ==
    IF order_id \in 1..Len(d.orders)
    THEN [d EXCEPT !.orders[order_id].status = "ready",
                   !.orders[order_id].completed_at = now]
    ELSE d

\* PUT /api/orders/<id>/complete, up to the commit of complete_order_db: the
\* UPDATE takes the write lock.  now is datetime.now(), which does not run
\* backwards.  rowcount (the rows the UPDATE matched) is not read by the
\* code: it is kept to tell what the call found.
complete_order(t, order_id, now) ==
    /\ pc[t] = "idle"
    /\ lock = 0
    /\ now >= Clock(db.orders, Len(db.orders))
    /\ db' = complete_order_db(db, order_id, now)
    /\ pc' = [pc EXCEPT ![t] = "complete_select"]
    /\ loc' = [loc EXCEPT ![t] =
                 [NoLoc EXCEPT !.order_id = order_id,
                               !.rowcount = IF order_id \in 1..Len(db.orders) THEN 1 ELSE 0]]
    /\ UNCHANGED <<lock, tx>>

\* complete_order_db: order = SELECT * FROM orders WHERE id = ?, read after
\* the commit; return dict(order) if order else None
CompleteFound(d, order_id) == order_id \in 1..Len(d.orders)

\* complete_order: 200 with the order when complete_order_db returned one,
\* 404 'Order not found' otherwise
CompleteStatus(found) == IF found THEN 200 ELSE 404

\* complete_order_db after the commit: the SELECT, conn.close(), and the
\* route's answer
complete_order_return(t) ==
    /\ pc[t] = "complete_select"
    /\ pc' = [pc EXCEPT ![t] = "idle"]
    /\ loc' = [loc EXCEPT ![t] = NoLoc]
    /\ UNCHANGED <<db, lock, tx>>

(* ------------------------- Inventory Manager -------------------------- *)
\* an initial row that logs no change
InitialRowFlat(item_id, name, stock) ==
    HistoryRow(item_id, name, 0, 0, stock, "initial", <<"Initial stock">>, PuncherId)

\* add_menu_item: the stock_history row (stock, 0, stock, 'initial')
InitialRow(item_id, name, stock) ==
    HistoryRow(item_id, name, stock, 0, stock, "initial", <<"Initial stock">>, PuncherId)

\* add_menu_item: both INSERTs
AddMenuItemDb(d, name, price, category, stock, requires_side) ==
    LET item_id == d.menu_seq + 1 IN
    [d EXCEPT !.menu_items    = InsertMenuItem(@, item_id,
                                    [ name          |-> name,
                                      price         |-> price,
                                      category      |-> category,
                                      requires_side |-> requires_side,
                                      stock         |-> stock ]),
              !.menu_seq      = item_id,
              !.stock_history = Append(@, InitialRow(item_id, name, stock))]

\* POST /api/puncher/menu: validation (400 touches nothing), then
\* add_menu_item, whose first statement takes the write lock and whose last
\* is the commit.  The stock of the request body is stored as given.
add_menu_item(t, name, price, category, stock, requires_side) ==
    /\ pc[t] = "idle"
    /\ IF name = "" \/ category = ""
       THEN UNCHANGED db
       ELSE /\ lock = 0
            /\ db.menu_seq < MaxItems
            /\ RoomForHist(1)
            /\ db' = AddMenuItemDb(db, name, price, category, stock, requires_side)
    /\ UNCHANGED <<lock, tx, pc, loc>>

\* an UPDATE that carries the new name into the order lines and the ledger
UpdateMenuItemCascade(d, item_id, name, price, category, requires_side) ==
    IF item_id \in DOMAIN d.menu_items
    THEN [d EXCEPT !.menu_items[item_id].name = name,
                   !.menu_items[item_id].price = price,
                   !.menu_items[item_id].category = category,
                   !.menu_items[item_id].requires_side = requires_side,
                   !.order_items = [k \in DOMAIN @ |->
                        IF @[k].menu_item_id = item_id
                        THEN [@[k] EXCEPT !.menu_item_name = name] ELSE @[k]],
                   !.stock_history = [k \in DOMAIN @ |->
                        IF @[k].menu_item_id = item_id
                        THEN [@[k] EXCEPT !.menu_item_name = name] ELSE @[k]]]
    ELSE d

\* an UPDATE that also empties the stock
UpdateMenuItemAndStock(d, item_id, name, price, category, requires_side) ==
    IF item_id \in DOMAIN d.menu_items
    THEN [d EXCEPT !.menu_items[item_id] =
             [ name |-> name, price |-> price, category |-> category,
               requires_side |-> requires_side, stock |-> 0 ]]
    ELSE d

\* update_menu_item: UPDATE menu_items SET name = ?, price = ?, category = ?,
\* requires_side = ? WHERE id = ?
UpdateMenuItemDb(d, item_id, name, price, category, requires_side) ==
    IF item_id \in DOMAIN d.menu_items
    THEN [d EXCEPT !.menu_items[item_id].name = name,
                   !.menu_items[item_id].price = price,
                   !.menu_items[item_id].category = category,
                   !.menu_items[item_id].requires_side = requires_side]
    ELSE d

\* PUT /api/puncher/menu/<id>: validation, then the UPDATE and its commit
\* (200, or 500 when the final SELECT finds no row)
update_menu_item(t, item_id, name, price, category, requires_side) ==
    /\ pc[t] = "idle"
    /\ IF name = "" \/ category = ""
       THEN UNCHANGED db
       ELSE /\ lock = 0
            /\ db' = UpdateMenuItemDb(db, item_id, name, price, category, requires_side)
    /\ UNCHANGED <<lock, tx, pc, loc>>

\* the change taken with the wrong sign
StockAfterMinus(stock_before, quantity_change) == stock_before - quantity_change

\* stock_after = stock_before + quantity_change
StockAfter(stock_before, quantity_change) == stock_before + quantity_change

\* a check that lets a stock of -1 through
UnderflowBelow(stock_after) == stock_after < 0 - 1

\* if stock_after < 0: return None
Underflow(stock_after) == stock_after < 0

\* change_type = 'restock' if quantity_change > 0 else 'adjustment'
ChangeType(quantity_change) == IF quantity_change > 0 THEN "restock" ELSE "adjustment"

\* update_stock: the stock_history row
StockRow(item_id, name, quantity_change, stock_before, stock_after) ==
    HistoryRow(item_id, name, quantity_change, stock_before, stock_after,
               ChangeType(quantity_change), <<>>, PuncherId)

\* update_stock: UPDATE menu_items SET stock = <stock_after> and the INSERT
\* INTO stock_history, from the values read earlier
UpdateStockDb(d, l) ==
    [d EXCEPT !.menu_items    = SetStock(@, l.item_id, l.stock_after),
              !.stock_history = Append(@, StockRow(l.item_id, l.name, l.quantity_change,
                                                   l.stock_before, l.stock_after))]

\* the locals of update_stock after its SELECT
StockLocals(item_id, quantity_change, item) ==
    [NoLoc EXCEPT !.item_id = item_id,
                  !.quantity_change = quantity_change,
                  !.stock_before = item.stock,
                  !.stock_after = StockAfter(item.stock, quantity_change),
                  !.name = item.name]

\* PUT /api/puncher/stock/<id>, up to the checks of update_stock: the SELECT
\* runs outside any transaction and reads the committed row.  No row: None is
\* returned at once (400).
update_stock_read(t, item_id, quantity_change) ==
    /\ pc[t] = "idle"
    /\ IF item_id \notin DOMAIN db.menu_items
       THEN UNCHANGED <<pc, loc>>
       ELSE LET l == StockLocals(item_id, quantity_change, db.menu_items[item_id]) IN
            /\ loc' = [loc EXCEPT ![t] = l]
            /\ IF Underflow(l.stock_after)
               THEN pc' = [pc EXCEPT ![t] = "stock_reject"]
               ELSE /\ l.stock_after <= MaxStock
                    /\ RoomForHist(1)
                    /\ pc' = [pc EXCEPT ![t] = "stock_write"]
    /\ UNCHANGED <<db, lock, tx>>

\* update_stock: conn.close(); return None, and the route's 400 'Failed to
\* update stock. Stock cannot be negative.'
update_stock_reject(t) ==
    /\ pc[t] = "stock_reject"
    /\ pc' = [pc EXCEPT ![t] = "idle"]
    /\ loc' = [loc EXCEPT ![t] = NoLoc]
    /\ UNCHANGED <<db, lock, tx>>

\* update_stock: updated_item = SELECT * FROM menu_items WHERE id = ?, read on
\* the database d after the commit; None, and the route's 400, when no row
UpdateStockFound(d, item_id) == item_id \in DOMAIN d.menu_items

\* update_stock from the UPDATE (which takes the write lock) to the commit
\* (200, or 400 when the final SELECT finds no row)
update_stock_write(t) ==
    /\ pc[t] = "stock_write"
    /\ lock = 0
    /\ db' = UpdateStockDb(db, loc[t])
    /\ pc' = [pc EXCEPT ![t] = "idle"]
    /\ loc' = [loc EXCEPT ![t] = NoLoc]
    /\ UNCHANGED <<lock, tx>>

\* a check that lets an item with one order line through
DeleteRefusedMany(count) == count > 1

\* if orders_count['count'] > 0: refuse
DeleteRefused(count) == count > 0

\* a delete that leaves the item's stock_history rows
DeleteMenuItemOnly(d, item_id) == [d EXCEPT !.menu_items = DeleteMenuItem(@, item_id)]

\* DELETE FROM menu_items WHERE id = ?; DELETE FROM stock_history WHERE
\* menu_item_id = ?
DeleteMenuItemDb(d, item_id) ==
    [d EXCEPT !.menu_items    = DeleteMenuItem(@, item_id),
              !.stock_history = SelectSeq(@, LAMBDA h : h.menu_item_id # item_id)]

\* DELETE /api/puncher/menu/<id>, up to the check of delete_menu_item: the
\* SELECT COUNT(*) runs outside any transaction
delete_menu_item_check(t, item_id) ==
    /\ pc[t] = "idle"
    /\ pc' = [pc EXCEPT ![t] =
                IF DeleteRefused(OrdersCount(db, item_id))
                THEN "delete_refuse" ELSE "delete_write"]
    /\ loc' = [loc EXCEPT ![t] = [NoLoc EXCEPT !.item_id = item_id]]
    /\ UNCHANGED <<db, lock, tx>>

\* delete_menu_item: conn.close(); return {'success': False, ...}, and the
\* route's 400
delete_menu_item_refuse(t) ==
    /\ pc[t] = "delete_refuse"
    /\ pc' = [pc EXCEPT ![t] = "idle"]
    /\ loc' = [loc EXCEPT ![t] = NoLoc]
    /\ UNCHANGED <<db, lock, tx>>

\* delete_menu_item: both DELETEs and the commit (200)
delete_menu_item_write(t) ==
    /\ pc[t] = "delete_write"
    /\ lock = 0
    /\ db' = DeleteMenuItemDb(db, loc[t].item_id)
    /\ pc' = [pc EXCEPT ![t] = "idle"]
    /\ loc' = [loc EXCEPT ![t] = NoLoc]
    /\ UNCHANGED <<lock, tx>>

(* ----------------------------- listings ------------------------------- *)
\* the texts of the model in the order of the BINARY collation
Collation == <<"Beer", "Drinks", "Meat", "Pap", "Sides", "Wors">>

Collate(s) == CHOOSE k \in 1..Len(Collation) : Collation[k] = s

\* ORDER BY category, name: row a comes before row b.  Rows equal in both
\* are told apart by the table alone; the model takes them by rowid.
MenuBefore(d, a, b) ==
    LET x == d.menu_items[a]
        y == d.menu_items[b]
    IN \/ Collate(x.category) < Collate(y.category)
       \/ x.category = y.category /\ Collate(x.name) < Collate(y.name)
       \/ x.category = y.category /\ x.name = y.name /\ a < b

RECURSIVE MenuOrder(_, _)
MenuOrder(d, S) ==
    IF S = {} THEN <<>>
    ELSE LET first == CHOOSE a \in S : \A b \in S \ {a} : MenuBefore(d, a, b)
         IN <<first>> \o MenuOrder(d, S \ {first})

\* get_menu_items: SELECT * FROM menu_items ORDER BY category, name, each row
\* as a dict
GetMenuItems(d) ==
    LET o == MenuOrder(d, DOMAIN d.menu_items)
    IN [k \in 1..Len(o) |-> [id |-> o[k]] @@ d.menu_items[o[k]]]

\* LEFT JOIN users u ON sh.puncher_id = u.id: u.username as puncher_name
PuncherName(puncher_id) == IF puncher_id = PuncherId THEN "puncher" ELSE NULL

\* get_stock_history: the rows of the item (of every item `if item_id` is
\* false), ORDER BY sh.timestamp DESC LIMIT ?, each with its puncher_name.
\* The rows are in stock_history in the order of their timestamps, so the
\* latest is the last; rows of one second are told apart by the table alone,
\* and the model takes them by rowid.  The id column is not modelled.
GetStockHistory(d, item_id, limit) ==
    LET rows == IF item_id # NullId
                THEN SelectSeq(d.stock_history, LAMBDA r : r.menu_item_id = item_id)
                ELSE d.stock_history
        n    == IF limit < Len(rows) THEN limit ELSE Len(rows)
    IN [k \in 1..n |->
          rows[Len(rows) + 1 - k] @@
             [puncher_name |-> PuncherName(rows[Len(rows) + 1 - k].puncher_id)]]

\* GET /api/menu and GET /api/puncher/menu: get_menu_items, one SELECT on a
\* connection of its own, which takes no write lock and sees what is
\* committed
get_menu_items(t) ==
    /\ pc[t] = "idle"
    /\ pc' = [pc EXCEPT ![t] = "menu_read"]
    /\ loc' = [loc EXCEPT ![t] = [NoLoc EXCEPT !.result = GetMenuItems(db)]]
    /\ UNCHANGED <<db, lock, tx>>

\* get_menu: return jsonify(items)
get_menu(t) ==
    /\ pc[t] = "menu_read"
    /\ pc' = [pc EXCEPT ![t] = "idle"]
    /\ loc' = [loc EXCEPT ![t] = NoLoc]
    /\ UNCHANGED <<db, lock, tx>>

\* a listing that clears what it has listed
get_stock_history_clear(t, item_id, limit) ==
    /\ pc[t] = "idle"
    /\ lock = 0
    /\ pc' = [pc EXCEPT ![t] = "history_read"]
    /\ loc' = [loc EXCEPT ![t] =
                 [NoLoc EXCEPT !.item_id = item_id, !.limit = limit,
                               !.result = GetStockHistory(db, item_id, limit)]]
    /\ db' = [db EXCEPT !.stock_history = <<>>]
    /\ UNCHANGED <<lock, tx>>

\* GET /api/puncher/stock-history?item_id=&limit=: get_stock_history, one
\* SELECT on a connection of its own
get_stock_history(t, item_id, limit) ==
    /\ pc[t] = "idle"
    /\ pc' = [pc EXCEPT ![t] = "history_read"]
    /\ loc' = [loc EXCEPT ![t] =
                 [NoLoc EXCEPT !.item_id = item_id, !.limit = limit,
                               !.result = GetStockHistory(db, item_id, limit)]]
    /\ UNCHANGED <<db, lock, tx>>

\* puncher_get_stock_history: return jsonify(history)
puncher_get_stock_history(t) ==
    /\ pc[t] = "history_read"
    /\ pc' = [pc EXCEPT ![t] = "idle"]
    /\ loc' = [loc EXCEPT ![t] = NoLoc]
    /\ UNCHANGED <<db, lock, tx>>

(* --------------------------- specification ---------------------------- *)
Init ==
    /\ db = InitDb
    /\ lock = 0
    /\ tx = NoTx
    /\ pc = [t \in Threads |-> "idle"]
    /\ loc = [t \in Threads |-> NoLoc]

\* one step of one request thread, the requests' bodies drawn from the sets
\* of in
Step(in) ==
    \E t \in Threads :
        \/ \E c \in in.customers, items \in in.carts, total \in in.totals :
              create_order(t, c, items, total)
        \/ create_order_reject(t)
        \/ create_order_db_item(t)
        \/ create_order_db_raise(t)
        \/ create_order_db_commit(t)
        \/ create_order_db_return(t)
        \/ \E o \in 1..MaxOrders, now \in in.times : complete_order(t, o, now)
        \/ complete_order_return(t)
        \/ \E e \in in.adds \cup {NoName}, s \in in.stocks :
              add_menu_item(t, e.name, e.price, e.category, s, e.requires_side)
        \/ \E i \in ItemIds, e \in in.edits \cup {NoName} :
              update_menu_item(t, i, e.name, e.price, e.category, e.requires_side)
        \/ \E i \in ItemIds, q \in in.deltas : update_stock_read(t, i, q)
        \/ update_stock_reject(t)
        \/ update_stock_write(t)
        \/ \E i \in ItemIds : delete_menu_item_check(t, i)
        \/ delete_menu_item_refuse(t)
        \/ delete_menu_item_write(t)

\* the requests that try the stock: carts of up to two lines of one or two
\* units, every adjustment, an initial stock below and above 0; one customer,
\* one offer, one total, the seeded details, one time
StockRequests ==
    [ customers |-> {"Thabo"},
      carts   |-> Carts,
      totals  |-> {SeedPrice(1)},
      times   |-> {1},
      adds    |-> {SeedDetails},
      edits   |-> {SeedDetails},
      stocks  |-> Stocks,
      deltas  |-> Deltas ]

Next == Step(StockRequests)

Spec == Init /\ [][Next]_vars

\* the requests that try the records: carts of one line of one unit with a
\* side, a total that is the line's price or not, edits that change every
\* detail, two times
RecordRequests ==
    [ customers |-> {"Thabo"},
      carts   |-> UNION {[1..n -> CartLinesOf({SideOffer}, {1})] : n \in {0, 1}},
      totals  |-> {PlainOffer.price, SideOffer.price},
      times   |-> {1, 2},
      adds    |-> {SeedDetails},
      edits   |-> {SeedDetails, OtherDetails},
      stocks  |-> {0, 1},
      deltas  |-> {0 - 1} ]

NextData == Step(RecordRequests)

SpecData == Init /\ [][NextData]_vars

\* the listings: they write nothing, and Spec and SpecData go without them
Listing(in) ==
    \E t \in Threads :
        \/ get_menu_items(t)
        \/ get_menu(t)
        \/ \E i \in in.filters, n \in in.limits : get_stock_history(t, i, n)
        \/ puncher_get_stock_history(t)

\* a drink, which the menu lists before the seeded meat
DrinkDetails ==
    [ name |-> "Beer", price |-> 25, category |-> "Drinks", requires_side |-> 0 ]

\* the requests that try the front of the API: a customer name or a cart
\* that is missing, a line of one unit or of one unit less than none, a
\* listing of the stock history of one item or of all, of one row or two
FrontRequests ==
    [ customers |-> Customers,
      carts   |-> UNION {[1..n -> CartLinesOf({PlainOffer}, {0 - 1, 1})] : n \in {0, 1}},
      totals  |-> {PlainOffer.price},
      times   |-> {1},
      adds    |-> {DrinkDetails},
      edits   |-> {SeedDetails},
      stocks  |-> {1},
      deltas  |-> {0 - 1},
      filters |-> {NullId, 1},
      limits  |-> {1, 2} ]

NextFront == Step(FrontRequests) \/ Listing(FrontRequests)

SpecFront == Init /\ [][NextFront]_vars

(* ------------------------------ claims -------------------------------- *)
\* quantity the lines 1..n of a cart ask of item id
RECURSIVE CartQty(_, _, _)
CartQty(items, n, id) ==
    IF n = 0 THEN 0
    ELSE CartQty(items, n - 1, id) + (IF items[n].id = id THEN items[n].quantity ELSE 0)

\* sum of quantity_change over the stock_history rows 1..n of item id
RECURSIVE HistSum(_, _, _)
HistSum(h, n, id) ==
    IF n = 0 THEN 0
    ELSE HistSum(h, n - 1, id) + (IF h[n].menu_item_id = id THEN h[n].quantity_change ELSE 0)

\* stock of item id before any stock_history row was written for it
BaseStock(id) == IF id \in SeedIds THEN SeedStock(id) ELSE 0

\* the threads' handlers in a create_order_db transaction that has applied a
\* line asking more than the stock it found
ShortLine(t) ==
    /\ pc[t] \in {"order_item", "order_commit"}
    /\ \E k \in (Len(db.stock_history) + 1)..Len(tx.stock_history) :
          tx.stock_history[k].stock_before < 0 - tx.stock_history[k].quantity_change

\* C1: in every reachable state every MenuItem has stock >= 0.
C1_StockNeverNegative ==
    \A id \in DOMAIN db.menu_items : db.menu_items[id].stock >= 0

\* C2: a submitOrder with a cart line whose quantity is greater than the
\* current stock of its item commits nothing: from the moment such a line has
\* been applied in the call's transaction, no step changes the database.
C2_ShortOrderCommitsNothing ==
    [][\A t \in Threads : ShortLine(t) => db' = db]_vars

\* the places in stock_history h of the rows that order order_id wrote for
\* item id
SaleRows(h, order_id, id) ==
    {k \in 1..Len(h) : /\ h[k].menu_item_id = id
                       /\ h[k].change_type = "sale"
                       /\ h[k].notes = <<"Order #", order_id>>}

Min(S) == CHOOSE k \in S : \A j \in S : k <= j

\* C3: two submitOrder calls running at the same time do not both succeed when
\* together they ask more of an item than was in stock before either began.
\* Two threads at "order_done" have both committed and neither has returned.
\* When every row written for the item since the first of their rows is theirs,
\* nothing else changed its stock, and the stock before either began is the
\* stock_before of that first row.
C3_ConcurrentOrdersWithinStock ==
    \A t, u \in Threads : \A id \in ItemIds :
        LET h  == db.stock_history
            Rt == SaleRows(h, loc[t].order_id, id)
            Ru == SaleRows(h, loc[u].order_id, id)
        IN ( /\ t # u
             /\ pc[t] = "order_done"
             /\ pc[u] = "order_done"
             /\ Rt # {}
             /\ Ru # {}
             /\ Min(Rt) < Min(Ru)
             /\ \A k \in Min(Rt)..Len(h) : h[k].menu_item_id = id => k \in Rt \cup Ru )
           => CartQty(loc[t].items, Len(loc[t].items), id)
                + CartQty(loc[u].items, Len(loc[u].items), id) <= h[Min(Rt)].stock_before

\* the stock_history tables there are: the committed one and the one of the
\* open transaction
Ledgers == {db.stock_history, tx.stock_history}

\* C4: every stock_history row, whoever wrote it (add_menu_item, update_stock
\* or create_order_db), has stock_after = stock_before + quantity_change.
C4_LedgerArithmetic ==
    \A h \in Ledgers : \A k \in 1..Len(h) :
        h[k].stock_after = h[k].stock_before + h[k].quantity_change

\* a committed ledger holding a sale row next to a row of another writer, both
\* with a change other than 0
C4_Witness ==
    \E j, k \in 1..Len(db.stock_history) :
        /\ db.stock_history[j].change_type = "sale"
        /\ db.stock_history[k].change_type \in {"restock", "adjustment", "initial"}
        /\ db.stock_history[k].quantity_change # 0

\* the stock_history row C5 asks for line k of the cart of thread t, from the
\* database d the order was committed on
SaleEntry(d, t, k) ==
    LET item   == loc[t].items[k]
        before == d.menu_items[item.id].stock - CartQty(loc[t].items, k - 1, item.id)
    IN [ menu_item_id    |-> item.id,
         menu_item_name  |-> item.name,
         quantity_change |-> 0 - item.quantity,
         stock_before    |-> before,
         stock_after     |-> before - item.quantity,
         change_type     |-> "sale",
         notes           |-> <<"Order #", Len(d.orders) + 1>>,
         puncher_id      |-> NullId ]

\* C5: the commit of a submitOrder takes from the stock of every item exactly
\* the quantities of the cart's lines for it, and appends to the ledger, after
\* the rows already there, one row for each cart line in the cart's order:
\* change_type sale, quantity_change = -quantity, stock_before = the stock of
\* the item after the cart's earlier lines, stock_after = stock_before -
\* quantity, a note naming the new order's id, and no puncher_id.  The same
\* with one item in several lines.
C5_OrderDecrementsAndLogs ==
    [][\A t \in Threads :
          (pc[t] = "order_commit" /\ pc'[t] = "order_done") =>
              LET items == loc[t].items
                  n     == Len(items)
                  h     == db.stock_history
              IN /\ Len(db'.orders) = Len(db.orders) + 1
                 /\ DOMAIN db'.menu_items = DOMAIN db.menu_items
                 /\ \A id \in DOMAIN db.menu_items :
                       db'.menu_items[id].stock =
                           db.menu_items[id].stock - CartQty(items, n, id)
                 /\ Len(db'.stock_history) = Len(h) + n
                 /\ \A k \in 1..Len(h) : db'.stock_history[k] = h[k]
                 /\ \A k \in 1..n : db'.stock_history[Len(h) + k] = SaleEntry(db, t, k)
      ]_vars

\* a committed order whose cart has the same item in two lines of different
\* quantity
C5_Witness ==
    \E t \in Threads :
        /\ pc[t] = "order_done"
        /\ Len(loc[t].items) = 2
        /\ loc[t].items[1].id = loc[t].items[2].id
        /\ loc[t].items[1].quantity # loc[t].items[2].quantity
        /\ Cardinality(SaleRows(db.stock_history, loc[t].order_id, loc[t].items[1].id)) = 2

\* C6: a submitOrder that fails partway through its cart (a line whose id
\* matches no menu_items row, after earlier lines were applied) persists
\* nothing: while a thread holds the write lock only its commit changes the
\* database, and a handler that raised never commits; it gives up the lock and
\* its transaction's view with the database as it was.
C6_FailedOrderPersistsNothing ==
    [][\A t \in Threads :
          /\ (lock = t /\ pc[t] # "order_commit") => db' = db
          /\ pc[t] = "order_raise" =>
                /\ pc'[t] \in {"order_raise", "idle"}
                /\ pc'[t] = "idle" => (lock' = 0 /\ tx' = NoTx)
      ]_vars

\* a handler that raised on its second line, the first line's order_items
\* row, stock decrement and stock_history row in its open transaction
C6_Witness ==
    \E t \in Threads :
        /\ pc[t] = "order_raise"
        /\ loc[t].i = 2
        /\ Len(tx.orders) = Len(db.orders) + 1
        /\ Len(tx.order_items) = Len(db.order_items) + 2
        /\ Len(tx.stock_history) = Len(db.stock_history) + 1
        /\ tx.menu_items # db.menu_items

\* C7: the stock of an item is its initial stock plus the quantity changes of
\* all calls that succeeded, one stock_history row each: no committed change
\* is lost or overwritten.
C7_NoLostUpdate ==
    \A id \in DOMAIN db.menu_items :
        db.menu_items[id].stock =
            BaseStock(id) + HistSum(db.stock_history, Len(db.stock_history), id)

\* the step of thread t that begins a call of update_stock on an existing item
StockCall(t) == pc[t] = "idle" /\ pc'[t] \in {"stock_reject", "stock_write"}

\* the stock the call beginning in this step finds
StockFound(t) == db.menu_items[loc'[t].item_id].stock

\* C8: adjustStock(item, delta) with current stock + delta < 0 is rejected,
\* the stock unchanged and no ledger row appended: a call goes on to write
\* only when the stock it finds plus delta is >= 0, and neither the step that
\* rejects nor the step that returns the rejection changes the database.
C8_UnderflowRejected ==
    [][\A t \in Threads :
          /\ (StockCall(t) /\ StockFound(t) + loc'[t].quantity_change < 0) =>
                (pc'[t] = "stock_reject" /\ db' = db)
          /\ (pc[t] = "stock_reject" /\ pc'[t] # "stock_reject") =>
                (pc'[t] = "idle" /\ db' = db)
      ]_vars

\* a call rejected for an item that exists, whose stock plus delta is below 0
C8_Witness ==
    \E t \in Threads :
        /\ pc[t] = "stock_reject"
        /\ loc[t].item_id \in DOMAIN db.menu_items
        /\ db.menu_items[loc[t].item_id].stock >= 0
        /\ db.menu_items[loc[t].item_id].stock + loc[t].quantity_change < 0

\* the stock_history row C9 asks of the call of thread t
AdjustEntry(t) ==
    [ menu_item_id    |-> loc[t].item_id,
      menu_item_name  |-> loc[t].name,
      quantity_change |-> loc[t].quantity_change,
      stock_before    |-> loc[t].stock_before,
      stock_after     |-> loc[t].stock_before + loc[t].quantity_change,
      change_type     |-> IF loc[t].quantity_change > 0 THEN "restock" ELSE "adjustment",
      notes           |-> <<>>,
      puncher_id      |-> PuncherId ]

\* C9: adjustStock(item, delta) on an existing item with stock + delta >= 0
\* succeeds for every delta, 0 included: the call is not rejected, and when it
\* ends the item has stock + delta and the ledger has one more row, with
\* quantity_change = delta, the acting user, and change_type restock when
\* delta > 0 and adjustment otherwise.  The stock is the one the call found.
C9_AdjustStockApplies ==
    [][\A t \in Threads :
          /\ (StockCall(t) /\ StockFound(t) + loc'[t].quantity_change >= 0) =>
                pc'[t] = "stock_write"
          /\ (pc[t] = "stock_write" /\ pc'[t] = "idle") =>
                /\ loc[t].item_id \in DOMAIN db'.menu_items
                /\ db'.menu_items[loc[t].item_id].stock =
                       loc[t].stock_before + loc[t].quantity_change
                /\ db'.stock_history = Append(db.stock_history, AdjustEntry(t))
      ]_vars

\* the step of thread t that begins a call of delete_menu_item
DeleteCall(t) == pc[t] = "idle" /\ pc'[t] \in {"delete_refuse", "delete_write"}

\* C10: deleteItem on an item that an order_items row references is refused,
\* and the menu_items row and every stock_history row are as they were: the
\* call goes to its refusal when it counts a reference, and neither that step
\* nor the step that returns the refusal changes the database.
C10_ReferencedItemKept ==
    [][\A t \in Threads :
          /\ (DeleteCall(t) /\ OrdersCount(db, loc'[t].item_id) > 0) =>
                (pc'[t] = "delete_refuse" /\ db' = db)
          /\ (pc[t] = "delete_refuse" /\ pc'[t] # "delete_refuse") =>
                (pc'[t] = "idle" /\ db' = db)
      ]_vars

\* a refused delete of an item that exists, has stock_history rows and is
\* referenced by an order_items row
C10_Witness ==
    \E t \in Threads :
        /\ pc[t] = "delete_refuse"
        /\ loc[t].item_id \in DOMAIN db.menu_items
        /\ OrdersCount(db, loc[t].item_id) > 0
        /\ \E k \in 1..Len(db.stock_history) :
              db.stock_history[k].menu_item_id = loc[t].item_id

\* the places in stock_history h of the rows of items other than id
RowsOfOthers(h, id) == {k \in 1..Len(h) : h[k].menu_item_id # id}

\* C11: deleteItem on an item that no order_items row references is not
\* refused, and its deleting step removes the menu_items row and every
\* stock_history row of the item and nothing else: every other menu_items row
\* is as it was, the stock_history rows of other items are all there, as they
\* were and in their order, and orders and order_items are untouched.
C11_UnreferencedItemDeleted ==
    [][\A t \in Threads :
          /\ (DeleteCall(t) /\ OrdersCount(db, loc'[t].item_id) = 0) =>
                (pc'[t] = "delete_write" /\ db' = db)
          /\ (pc[t] = "delete_write" /\ pc'[t] # "delete_write") =>
                LET id   == loc[t].item_id
                    h    == db.stock_history
                    keep == RowsOfOthers(h, id)
                IN /\ DOMAIN db'.menu_items = (DOMAIN db.menu_items) \ {id}
                   /\ \A k \in DOMAIN db'.menu_items : db'.menu_items[k] = db.menu_items[k]
                   /\ Len(db'.stock_history) = Cardinality(keep)
                   /\ \A k \in keep :
                         db'.stock_history[Cardinality({j \in keep : j <= k})] = h[k]
                   /\ db'.orders = db.orders
                   /\ db'.order_items = db.order_items
      ]_vars

\* a delete about to remove an unreferenced item that has a stock_history row
\* between the rows of another item
C11_Witness ==
    \E t \in Threads :
        LET id == loc[t].item_id
            h  == db.stock_history
        IN /\ pc[t] = "delete_write"
           /\ id \in DOMAIN db.menu_items
           /\ OrdersCount(db, id) = 0
           /\ DOMAIN db.menu_items # {id}
           /\ \E j, k \in 1..Len(h) : h[j].menu_item_id = id /\ h[k].menu_item_id # id

\* stock_history h2 is h with rows added at its end
Extends(h2, h) == Len(h2) >= Len(h) /\ \A k \in 1..Len(h) : h2[k] = h[k]

\* C12: the ledger is append-only.  In every step the stock_history rows
\* there are stay as they are, but for the rows of an item that a
\* delete_menu_item removes in that step; a successful add_menu_item or
\* update_stock adds one row, the commit of an order one row for each line of
\* its cart, and a call that is rejected or fails adds none.
C12_LedgerAppendOnly ==
    [][LET h  == db.stock_history
           h2 == db'.stock_history
       IN /\ \/ Extends(h2, h)
             \/ \E t \in Threads :
                   /\ pc[t] = "delete_write"
                   /\ pc'[t] = "idle"
                   /\ Len(h2) = Cardinality(RowsOfOthers(h, loc[t].item_id))
                   /\ \A k \in RowsOfOthers(h, loc[t].item_id) :
                         h2[Cardinality({j \in RowsOfOthers(h, loc[t].item_id) : j <= k})] = h[k]
          /\ db'.menu_seq # db.menu_seq => Len(h2) = Len(h) + 1
          /\ \A t \in Threads :
                /\ (pc[t] = "stock_write" /\ pc'[t] = "idle") =>
                      Len(h2) = Len(h) + (IF UpdateStockFound(db', loc[t].item_id) THEN 1 ELSE 0)
                /\ (pc[t] = "order_commit" /\ pc'[t] = "order_done") =>
                      Len(h2) = Len(h) + Len(loc[t].items)
                /\ (pc[t] \in {"order_raise", "stock_reject", "delete_refuse"}
                      /\ pc'[t] = "idle") => h2 = h
      ]_vars

\* the step of thread t that is the UPDATE of a complete_order call, and the
\* order it names
CompleteCall(t) == pc[t] = "idle" /\ pc'[t] = "complete_select"

\* C13: order status follows one one-way edge.  No order disappears; an order
\* appears with status pending; the UPDATE of complete_order leaves the order
\* it names ready; a pending order stays pending or becomes ready, and a ready
\* order stays ready, whatever the step.
C13_StatusOneWay ==
    [][/\ Len(db'.orders) >= Len(db.orders)
       /\ \A k \in 1..Len(db'.orders) :
             IF k > Len(db.orders)
             THEN db'.orders[k].status = "pending"
             ELSE /\ db'.orders[k].status \in {"pending", "ready"}
                  /\ db.orders[k].status = "ready" => db'.orders[k].status = "ready"
       /\ \A t \in Threads :
             (CompleteCall(t) /\ loc'[t].order_id \in 1..Len(db.orders)) =>
                 db'.orders[loc'[t].order_id].status = "ready"
      ]_vars

\* an order made ready by one call and named again by a later one, next to an
\* order still pending
C13_Witness ==
    \E t \in Threads : \E k \in 1..Len(db.orders) :
        /\ pc[t] = "complete_select"
        /\ loc[t].order_id \in 1..Len(db.orders)
        /\ db.orders[loc[t].order_id].status = "ready"
        /\ db.orders[loc[t].order_id].completed_at > 1
        /\ db.orders[k].status = "pending"

\* the step of thread t that ends a complete_order call: the SELECT and the
\* answer
CompleteReturn(t) == pc[t] = "complete_select" /\ pc'[t] = "idle"

\* C14: completeOrder with an id that matches no order answers not found and
\* changes nothing: the UPDATE of a call that names no order leaves the
\* database as it was, and so does the rest of the call, which answers 404.
C14_CompleteUnknownOrder ==
    [][\A t \in Threads :
          /\ (CompleteCall(t) /\ loc'[t].order_id \notin 1..Len(db.orders)) =>
                (loc'[t].rowcount = 0 /\ db' = db)
          /\ (CompleteReturn(t) /\ loc[t].rowcount = 0) =>
                /\ db' = db
                /\ CompleteStatus(CompleteFound(db, loc[t].order_id)) = 404
      ]_vars

\* C15: completeOrder on an order that is already ready succeeds: its UPDATE
\* leaves the status ready and writes completed_at again, with a time that is
\* not before any time stored so far, and the call answers 200.
C15_CompleteAgain ==
    [][\A t \in Threads :
          /\ ( /\ CompleteCall(t)
               /\ loc'[t].order_id \in 1..Len(db.orders)
               /\ db.orders[loc'[t].order_id].status = "ready" ) =>
                 /\ loc'[t].rowcount = 1
                 /\ db'.orders[loc'[t].order_id].status = "ready"
                 /\ db'.orders[loc'[t].order_id].completed_at # NoTime
                 /\ db'.orders[loc'[t].order_id].completed_at >= Clock(db.orders, Len(db.orders))
          /\ (CompleteReturn(t) /\ loc[t].rowcount = 1) =>
                CompleteStatus(CompleteFound(db, loc[t].order_id)) = 200
      ]_vars

\* two calls have completed the same order and neither has answered: the
\* later one found it ready, and its time is the one stored
C15_Witness ==
    \E t, u \in Threads :
        /\ t # u
        /\ pc[t] = "complete_select"
        /\ pc[u] = "complete_select"
        /\ loc[t].rowcount = 1
        /\ loc[u].rowcount = 1
        /\ loc[t].order_id = loc[u].order_id
        /\ db.orders[loc[t].order_id].status = "ready"
        /\ db.orders[loc[t].order_id].completed_at = 2

\* name, price, category and requires_side of a menu_items row
DetailsOf(row) ==
    [ name          |-> row.name,
      price         |-> row.price,
      category      |-> row.category,
      requires_side |-> row.requires_side ]

\* C16: editItem changes only name, price, category and requires_side of its
\* item.  A step that changes a detail of an item (only update_menu_item does)
\* leaves the stock of every item, every other item, the ledger, the orders
\* and the order lines as they were.
C16_EditChangesDetailsOnly ==
    [][\A id \in (DOMAIN db.menu_items) \cap (DOMAIN db'.menu_items) :
          DetailsOf(db'.menu_items[id]) # DetailsOf(db.menu_items[id]) =>
              /\ DOMAIN db'.menu_items = DOMAIN db.menu_items
              /\ \A k \in DOMAIN db.menu_items :
                    /\ db'.menu_items[k].stock = db.menu_items[k].stock
                    /\ k # id => db'.menu_items[k] = db.menu_items[k]
              /\ db'.menu_seq = db.menu_seq
              /\ db'.stock_history = db.stock_history
              /\ db'.orders = db.orders
              /\ db'.order_items = db.order_items
      ]_vars

\* the seeded item edited in every detail, its stock as seeded and no ledger
\* row written
C16_Witness ==
    /\ 1 \in DOMAIN db.menu_items
    /\ DetailsOf(db.menu_items[1]) = OtherDetails
    /\ db.menu_items[1].stock = SeedStock(1)
    /\ db.stock_history = <<>>

\* the stock_history row C17 asks for the new item id of database d
InitialEntry(d, id) ==
    [ menu_item_id    |-> id,
      menu_item_name  |-> d.menu_items[id].name,
      quantity_change |-> d.menu_items[id].stock,
      stock_before    |-> 0,
      stock_after     |-> d.menu_items[id].stock,
      change_type     |-> "initial",
      notes           |-> <<"Initial stock">>,
      puncher_id      |-> PuncherId ]

\* C17: addItem creates one menu item, under the next id, and appends one
\* ledger row for it: change_type initial, quantity_change = the item's stock,
\* stock_before = 0, stock_after = the item's stock, the acting user; the stock
\* is one of the request bodies'.  Every other item and every ledger row there
\* was stay as they were.
C17_AddItemLogsInitialStock ==
    [][db'.menu_seq # db.menu_seq =>
          LET id == db'.menu_seq IN
          /\ id = db.menu_seq + 1
          /\ DOMAIN db'.menu_items = (DOMAIN db.menu_items) \cup {id}
          /\ id \notin DOMAIN db.menu_items
          /\ \A k \in DOMAIN db.menu_items : db'.menu_items[k] = db.menu_items[k]
          /\ db'.menu_items[id].stock \in StockRequests.stocks
          /\ db'.stock_history = Append(db.stock_history, InitialEntry(db', id))
      ]_vars

\* an added item with a stock other than 0, its initial row the last of the
\* ledger
C17_Witness ==
    \E id \in (DOMAIN db.menu_items) \ SeedIds :
        /\ db.menu_items[id].stock # 0
        /\ Len(db.stock_history) > 0
        /\ db.stock_history[Len(db.stock_history)].menu_item_id = id
        /\ db.stock_history[Len(db.stock_history)].change_type = "initial"

\* quantity times price, summed over the rows 1..n of order_items that
\* belong to order order_id
RECURSIVE LinesTotal(_, _, _)
LinesTotal(lines, n, order_id) ==
    IF n = 0 THEN 0
    ELSE LinesTotal(lines, n - 1, order_id)
           + (IF lines[n].order_id = order_id
              THEN lines[n].quantity * lines[n].price ELSE 0)

\* C18: the total stored with every committed order is the sum over its
\* order_items rows of quantity times price.
C18_TotalIsSumOfLines ==
    \A k \in 1..Len(db.orders) :
        db.orders[k].total = LinesTotal(db.order_items, Len(db.order_items), k)

\* the order_items row C19 asks for line k of the cart of thread t
LineEntry(t, k) ==
    [ order_id       |-> loc[t].order_id,
      menu_item_id   |-> loc[t].items[k].id,
      menu_item_name |-> loc[t].items[k].name,
      quantity       |-> loc[t].items[k].quantity,
      price          |-> loc[t].items[k].price,
      side_option    |-> loc[t].items[k].side_option ]

\* C19: the commit of a submitOrder adds one order, under the id the call
\* took, with status pending and the total of the request, and after the
\* order_items rows there were one row for each cart line, in the cart's
\* order, with the quantity, price, name and side of the line as the cart
\* gave them.
C19_OrderStoredAsSupplied ==
    [][\A t \in Threads :
          (pc[t] = "order_commit" /\ pc'[t] = "order_done") =>
              LET n == Len(loc[t].items)
                  l == db.order_items
              IN /\ Len(db'.orders) = Len(db.orders) + 1
                 /\ loc[t].order_id = Len(db'.orders)
                 /\ \A k \in 1..Len(db.orders) : db'.orders[k] = db.orders[k]
                 /\ db'.orders[loc[t].order_id] =
                        [ customer_name |-> loc[t].customer_name,
                          total         |-> loc[t].total,
                          status        |-> "pending",
                          completed_at  |-> NoTime ]
                 /\ Len(db'.order_items) = Len(l) + n
                 /\ \A k \in 1..Len(l) : db'.order_items[k] = l[k]
                 /\ \A k \in 1..n : db'.order_items[Len(l) + k] = LineEntry(t, k)
      ]_vars

\* a committed order whose line has a price and a name that are not the
\* catalog's, and whose total is not the line's price
C19_Witness ==
    \E t \in Threads : \E k \in 1..Len(db.order_items) :
        LET line == db.order_items[k] IN
        /\ pc[t] = "order_done"
        /\ line.order_id = loc[t].order_id
        /\ line.menu_item_id \in DOMAIN db.menu_items
        /\ line.price # db.menu_items[line.menu_item_id].price
        /\ line.menu_item_name # db.menu_items[line.menu_item_id].name
        /\ line.side_option # NULL
        /\ db.orders[line.order_id].total # line.quantity * line.price

\* a step that changes a detail of a menu item
EditStep ==
    \E id \in (DOMAIN db.menu_items) \cap (DOMAIN db'.menu_items) :
        DetailsOf(db'.menu_items[id]) # DetailsOf(db.menu_items[id])

\* C20: historical records are snapshots.  No step changes or removes an
\* order_items row there is; an edit of a menu item and the write of a stock
\* adjustment leave the order_items table as it was and every stock_history
\* row there is as it was, its menu_item_name included.
C20_RecordsAreSnapshots ==
    [][/\ Extends(db'.order_items, db.order_items)
       /\ (EditStep \/ \E t \in Threads : pc[t] = "stock_write" /\ pc'[t] = "idle") =>
             /\ db'.order_items = db.order_items
             /\ Extends(db'.stock_history, db.stock_history)
      ]_vars

\* an added item renamed and repriced after its initial row was written: the
\* initial row and an order line of the item keep the old name, the line a
\* price that is not the catalog's
C20_Witness ==
    \E id \in (DOMAIN db.menu_items) \ SeedIds :
        /\ DetailsOf(db.menu_items[id]) = OtherDetails
        /\ \E k \in 1..Len(db.stock_history) :
              /\ db.stock_history[k].menu_item_id = id
              /\ db.stock_history[k].change_type = "initial"
              /\ db.stock_history[k].menu_item_name = SeedDetails.name
        /\ \E k \in 1..Len(db.order_items) :
              /\ db.order_items[k].menu_item_id = id
              /\ db.order_items[k].menu_item_name = SeedDetails.name
              /\ db.order_items[k].price # OtherDetails.price

\* the step of thread t that begins a create_order call
OrderCall(t) == pc[t] = "idle" /\ pc'[t] \in {"order_reject", "order_item", "order_commit"}

\* C21: a submitOrder with an empty customer name or an empty cart is
\* rejected and changes nothing: such a call goes to its rejection and opens
\* no transaction, and neither that step nor the step that answers 400
\* changes orders, order lines, stock or ledger.
C21_MissingFieldsRejected ==
    [][\A t \in Threads :
          /\ (OrderCall(t) /\ (loc'[t].customer_name = "" \/ loc'[t].items = <<>>)) =>
                (pc'[t] = "order_reject" /\ db' = db /\ tx' = tx /\ lock' = lock)
          /\ (pc[t] = "order_reject" /\ pc'[t] # "order_reject") =>
                (pc'[t] = "idle" /\ db' = db /\ tx' = tx /\ lock' = lock)
      ]_vars

\* one call rejected for its empty name with a cart of one line, another for
\* its empty cart with a name
C21_Witness ==
    \E t, u \in Threads :
        /\ pc[t] = "order_reject"
        /\ loc[t].customer_name = ""
        /\ loc[t].items # <<>>
        /\ pc[u] = "order_reject"
        /\ loc[u].customer_name # ""
        /\ loc[u].items = <<>>

\* C22: every order_items row has a quantity above zero and every 'sale'
\* row of stock_history a quantity_change below zero, so that no cart line
\* with a zero or negative quantity is committed as a line or raises a stock.
C22_QuantitiesPositive ==
    /\ \A k \in 1..Len(db.order_items) : db.order_items[k].quantity > 0
    /\ \A k \in 1..Len(db.stock_history) :
          db.stock_history[k].change_type = "sale" =>
             db.stock_history[k].quantity_change < 0

\* C23: an order has its completed_at set exactly when its status is
\* 'ready'.
C23_CompletedIffReady ==
    \A k \in 1..Len(db.orders) :
        (db.orders[k].completed_at # NoTime) <=> (db.orders[k].status = "ready")

\* an order completed, with its time, beside one still pending, without
C23_Witness ==
    \E j, k \in 1..Len(db.orders) :
        /\ db.orders[j].status = "ready"
        /\ db.orders[j].completed_at # NoTime
        /\ db.orders[k].status = "pending"
        /\ db.orders[k].completed_at = NoTime

\* the places of the stock_history rows of item id
RowsOf(h, id) == {k \in 1..Len(h) : h[k].menu_item_id = id}

\* the greatest number of a non-empty set of numbers
Max(S) == CHOOSE m \in S : \A k \in S : k <= m

\* C25: the ledger reconciles with the catalog in every committed state: the
\* stock of a menu item that has stock_history rows is the stock_after of the
\* last of them, and the stock_before of each of its rows is the stock_after
\* of the row of the same item before it.
C25_LedgerReconciles ==
    \A id \in DOMAIN db.menu_items :
        LET h    == db.stock_history
            rows == RowsOf(h, id)
        IN rows # {} =>
              /\ db.menu_items[id].stock = h[Max(rows)].stock_after
              /\ \A k \in rows :
                    LET before == {j \in rows : j < k} IN
                    before # {} => h[k].stock_before = h[Max(before)].stock_after

\* C26: the menu_item_id of every order_items row names a menu_items row,
\* whatever the interleaving of a delete_menu_item with a create_order.
C26_LineItemNamesMenuItem ==
    \A k \in 1..Len(db.order_items) :
        db.order_items[k].menu_item_id \in DOMAIN db.menu_items

\* r is the menu of database d as get_menu_items lists it: every menu_items
\* row once, with its id, in the order of category and name
ListedMenu(r, d) ==
    /\ Len(r) = Cardinality(DOMAIN d.menu_items)
    /\ \A j \in 1..Len(r) :
          /\ r[j].id \in DOMAIN d.menu_items
          /\ r[j] = [id |-> r[j].id] @@ d.menu_items[r[j].id]
    /\ \A j, k \in 1..Len(r) : j < k => MenuBefore(d, r[j].id, r[k].id)

\* r is the stock history of database d as get_stock_history lists it: the
\* limit latest rows of the item, or of all items, the latest first
ListedHistory(r, d, item_id, limit) ==
    LET h == d.stock_history
        P == IF item_id # NullId THEN RowsOf(h, item_id) ELSE 1..Len(h)
    IN /\ Len(r) = Min({limit, Cardinality(P)})
       /\ \A j \in 1..Len(r) :
             \E k \in P :
                /\ Cardinality({m \in P : m > k}) = j - 1
                /\ \A f \in DOMAIN h[k] : r[j][f] = h[k][f]

\* thread t holds the result of a listing
Listed(t) == pc[t] \in {"menu_read", "history_read"}

\* C24: the listings are pure.  The step that lists the menu or the stock
\* history, and the step that answers with the list, change no table, no
\* transaction and no lock; the list is the one the committed tables and the
\* arguments determine; and a call made while another thread holds the list
\* of the same call with the same arguments, the tables still being as that
\* list has them, returns the identical list.
C24_ListingsArePure ==
    [][\A t \in Threads :
          /\ (pc[t] = "idle" /\ pc'[t] = "menu_read") =>
                /\ db' = db /\ tx' = tx /\ lock' = lock
                /\ ListedMenu(loc'[t].result, db)
                /\ \A u \in Threads :
                      (pc[u] = "menu_read" /\ ListedMenu(loc[u].result, db)) =>
                         loc'[t].result = loc[u].result
          /\ (pc[t] = "idle" /\ pc'[t] = "history_read") =>
                /\ db' = db /\ tx' = tx /\ lock' = lock
                /\ ListedHistory(loc'[t].result, db, loc'[t].item_id, loc'[t].limit)
                /\ \A u \in Threads :
                      (/\ pc[u] = "history_read"
                       /\ loc[u].item_id = loc'[t].item_id
                       /\ loc[u].limit = loc'[t].limit
                       /\ ListedHistory(loc[u].result, db, loc[u].item_id, loc[u].limit)) =>
                         loc'[t].result = loc[u].result
          /\ (Listed(t) /\ pc'[t] # pc[t]) =>
                (pc'[t] = "idle" /\ db' = db /\ tx' = tx /\ lock' = lock)
      ]_vars

\* two threads hold the same list of the latest row of item 1, a row of
\* another item having been written after it
C24_Witness ==
    \E t, u \in Threads :
        /\ t # u
        /\ pc[t] = "history_read" /\ pc[u] = "history_read"
        /\ loc[t].item_id = 1 /\ loc[u].item_id = 1
        /\ loc[t].limit = 1 /\ loc[u].limit = 1
        /\ Len(loc[t].result) = 1
        /\ loc[t].result = loc[u].result
        /\ db.stock_history # <<>>
        /\ db.stock_history[Len(db.stock_history)].menu_item_id # 1

\* C27: the UPDATE of a complete_order changes nothing but the status and
\* the completed_at of the order it names: the other orders, the order
\* lines, the menu and its stocks and the ledger are as they were.  And no
\* step of any operation removes an order, or removes or changes an order
\* line.
C27_CompleteTouchesOneOrder ==
    [][/\ \A t \in Threads :
             CompleteCall(t) =>
                /\ db'.menu_items = db.menu_items
                /\ db'.menu_seq = db.menu_seq
                /\ db'.order_items = db.order_items
                /\ db'.stock_history = db.stock_history
                /\ Len(db'.orders) = Len(db.orders)
                /\ \A k \in 1..Len(db.orders) :
                      /\ k # loc'[t].order_id => db'.orders[k] = db.orders[k]
                      /\ db'.orders[k].customer_name = db.orders[k].customer_name
                      /\ db'.orders[k].total = db.orders[k].total
       /\ Len(db'.orders) >= Len(db.orders)
       /\ Extends(db'.order_items, db.order_items)
      ]_vars

\* an order just completed, with its line, beside another one still pending
C27_Witness ==
    \E t \in Threads :
        /\ pc[t] = "complete_select"
        /\ loc[t].rowcount = 1
        /\ Len(db.orders) = 2
        /\ db.orders[loc[t].order_id].status = "ready"
        /\ \E k \in 1..Len(db.orders) : db.orders[k].status = "pending"
        /\ \E k \in 1..Len(db.order_items) : db.order_items[k].order_id = loc[t].order_id

====
